---- MODULE Spec2Model ----
(***************************************************************************)
(* Model of src/src/vuex-dash-dpp.js: the payload regulator                *)
(* (regulatePayload) and the per-document-type store module (mirror,       *)
(* one / compose / multiple / create / replace / delete / broadcast).      *)
(*                                                                         *)
(* A JS object is a sequence of entries [key, items] in insertion order.   *)
(* An item (raw item or Document) is a record [id, data]; its JSON size is *)
(* decided by its data (EncodedLength).  The JS value undefined is the     *)
(* record Undefined.                                                       *)
(***************************************************************************)
EXTENDS Integers, Sequences, FiniteSets, TLC

\* ------------------------------------------------------------ constants
MAX_KILOBYTES_PER_PAYLOAD == 4
MAX_DOCUMENTS_PER_PAYLOAD == 10

\* ------------------------------------------------------------ bounds
\* Free items per key of a regulated payload (after the filler run).
MaxFree == 1
\* Bytes of a small item.
SmallBytes == 1

HalfBytes == (MAX_KILOBYTES_PER_PAYLOAD * 1024) \div 2
FullBytes == MAX_KILOBYTES_PER_PAYLOAD * 1024
\* Length of a run of small items put in front of a key's free items.
PadLen == MAX_DOCUMENTS_PER_PAYLOAD \div 2

\* ------------------------------------------------------------ values
\* $id values: a key that is absent, the empty string, or a real id.
AbsentId == -1
EmptyId == 0
Undefined == [id |-> -2, data |-> "undefined"]
DataSizes == {"small", "half", "full"}

\* new TextEncoder().encode(JSON.stringify(item)).length; JSON.stringify of
\* undefined is undefined, which encode() reads as the empty string.
EncodedLength(item) ==
  CASE item.data = "undefined" -> 0
    [] item.data = "half" -> HalfBytes
    [] item.data = "full" -> FullBytes
    [] OTHER -> SmallBytes

\* ------------------------------------------------------------ lodash
stubArray == <<>>
keys(payload) == [i \in 1..Len(payload) |-> payload[i].key]
times(n, v) == [i \in 1..n |-> v]
zipObject(ks, vs) == [i \in 1..Len(ks) |-> [key |-> ks[i], items |-> vs[i]]]

\* obj[key]: the items under key; Missing stands for the undefined read from an
\* object that has no such key (every use below tests HasKey first, since
\* undefined.length throws).
Missing == <<Undefined, Undefined, Undefined>>
HasKey(obj, key) == \E i \in 1..Len(obj) : obj[i].key = key
Get(obj, key) ==
  IF HasKey(obj, key)
  THEN obj[CHOOSE i \in 1..Len(obj) : obj[i].key = key].items
  ELSE Missing

\* ------------------------------------------------------------ regulatePayload
\* The test of lines 40-43, size in bytes (size/1024 < 4 iff bytes < 4*1024;
\* the division by a power of two is exact).
WithinBudgetInclusive(size, limit) ==
  /\ size <= MAX_KILOBYTES_PER_PAYLOAD * 1024
  /\ limit <= MAX_DOCUMENTS_PER_PAYLOAD

WithinBudget(size, limit) ==
  /\ size < MAX_KILOBYTES_PER_PAYLOAD * 1024
  /\ limit <= MAX_DOCUMENTS_PER_PAYLOAD

\* Mutant: an item over the budget is dropped instead of kept in remainder.
VisitItemDropping(acc, k, item) ==
  LET size == acc.size + EncodedLength(item)
      limit == acc.limit + 1
  IN IF WithinBudget(size, limit)
     THEN [acc EXCEPT !.included[k].items = Append(@, item),
                      !.size = size, !.limit = limit]
     ELSE [acc EXCEPT !.size = size, !.limit = limit]

\* Mutant: the size is assigned, not accumulated, and the count is not kept
\* once the budget is crossed.
VisitItemNotCumulative(acc, k, item) ==
  LET size == EncodedLength(item)
      limit == acc.limit + 1
  IN IF WithinBudget(size, limit)
     THEN [acc EXCEPT !.included[k].items = Append(@, item),
                      !.size = size, !.limit = limit]
     ELSE [acc EXCEPT !.remainder[k].items = Append(@, item),
                      !.size = size, !.limit = 0]

\* The body of the inner each (lines 34-48) for one item of the k-th key.
VisitItem(acc, k, item) ==
  LET size == acc.size + EncodedLength(item)
      limit == acc.limit + 1
  IN IF WithinBudget(size, limit)
     THEN [acc EXCEPT !.included[k].items = Append(@, item),
                      !.size = size, !.limit = limit]
     ELSE [acc EXCEPT !.remainder[k].items = Append(@, item),
                      !.size = size, !.limit = limit]

RECURSIVE EachItem(_, _, _, _)
EachItem(acc, k, items, i) ==
  IF i > Len(items) THEN acc
  ELSE EachItem(VisitItem(acc, k, items[i]), k, items, i + 1)

RECURSIVE EachKey(_, _, _)
EachKey(acc, payload, k) ==
  IF k > Len(payload) THEN acc
  ELSE EachKey(EachItem(acc, k, payload[k].items, 1), payload, k + 1)

regulatePayload(payload) ==
  LET payloadKeys == keys(payload)
      payloadValues == times(Len(payloadKeys), stubArray)
      acc == EachKey([included |-> zipObject(payloadKeys, payloadValues),
                      remainder |-> zipObject(payloadKeys, payloadValues),
                      size |-> 0, limit |-> 0], payload, 1)
  IN [included |-> acc.included, remainder |-> acc.remainder]

\* ------------------------------------------------------------ state
\* The regulator applied to one payload.
VARIABLES regIn, regOut, regDone
\* One per-type store module: the mirror (state.documents), the remote
\* collection, and one call chain of a public action.
VARIABLES documents, remote, op, pc, input, todo, docs, rem, held,
          bpayload, breg, depth, calls, bresult, result,
          mirror0, failures, nextId, classified, dispatched, itemFailure

\* One refresh of the mirror (action all), running beside the call chain.
VARIABLES allPc, all, page, queries, reply, allResult

\* The registry of per-type modules: options.documents, what the watcher saw
\* last and whether it is queued, the registered modules with their mirrors,
\* the refreshes in flight, and what the watcher's last run did.
VARIABLES watched, seen, stale, modules, refreshing, events

\* The lazily synchronised account and identity of the root module: the
\* options' credentials, state.account / identity (0 for null, else the run
\* that fetched it), the trigger slots, the synced and syncing flags, the
\* fetches in flight, the accounts listening for transactions, the number of
\* init runs; and, since the last init, the calls of each armed trigger, the
\* fetches they started and the stamps of their runs; last is the last step.
VARIABLES cred, resource, trigger, synced, syncing, fetching, listening, gen,
          invocations, fetchCalls, stamps, last

regVars == <<regIn, regOut, regDone>>
syncVars == <<cred, resource, trigger, synced, syncing, fetching, listening, gen,
              invocations, fetchCalls, stamps, last>>
registryVars == <<watched, seen, stale, modules, refreshing, events>>
allVars == <<allPc, all, page, queries, reply, allResult>>
chainVars == <<op, pc, input, todo, docs, rem, held, bpayload, breg, depth,
               calls, bresult, result, mirror0, failures, nextId, classified,
               dispatched, itemFailure>>
storeVars == <<documents, remote, op, pc, input, todo, docs, rem, held,
               bpayload, breg, depth, calls, bresult, result, mirror0,
               failures, nextId, classified, dispatched, itemFailure>>
\* What a step of the call chain leaves alone.
offChain == <<regVars, allVars, registryVars, syncVars>>
vars == <<regIn, regOut, regDone, documents, remote, op, pc, input, todo,
          docs, rem, held, bpayload, breg, depth, calls, bresult, result,
          mirror0, failures, nextId, classified, dispatched, itemFailure,
          allVars, registryVars, syncVars>>

\* ------------------------------------------------------------ regulator inputs
RECURSIVE SeqsUpTo(_, _)
SeqsUpTo(S, n) ==
  IF n = 0 THEN {<<>>}
  ELSE LET shorter == SeqsUpTo(S, n - 1)
       IN shorter \cup {Append(s, x) : s \in {t \in shorter : Len(t) = n - 1}, x \in S}

RegData == DataSizes \cup {"undefined"}

\* The items under one key: a run of small items, then up to MaxFree items of
\* any size; every item but undefined carries an id that is unique in the payload.
KeyItems(k, pad, free) ==
  [i \in 1..(pad + Len(free)) |->
     IF i <= pad THEN [id |-> 100 * k + i, data |-> "small"]
     ELSE IF free[i - pad] = "undefined" THEN Undefined
     ELSE [id |-> 100 * k + i, data |-> free[i - pad]]]

RegKeyOrders ==
  { <<>>, <<"items">>, <<"create">>, <<"replace">>, <<"delete">>,
    <<"delete", "create">>, <<"create", "replace", "delete">> }

RegPayload(ks, c) ==
  [k \in 1..Len(ks) |-> [key |-> ks[k], items |-> KeyItems(k, c[k][1], c[k][2])]]

\* ------------------------------------------------------------ store module
\* Bounds of the store's inputs.
\* Free raw items of a multiple() call (after the filler run).
MaxRaw == 2
\* Remote calls that may throw in one call chain.
MaxFailures == 1
\* Synchronous call depth at which the engine's stack is exhausted.
MaxStack == 2

\* The remote collection: id 1 holds a document, id 2 and the empty id do not.
RemoteIds == {1}
RawIds == {AbsentId, EmptyId, 1, 2}
RawData == {"none"} \cup DataSizes
RawItems == [id : RawIds, data : RawData]

EmptyMap == [i \in {} |-> "none"]
NoObject == <<>>
EmptyReg == [included |-> NoObject, remainder |-> NoObject]

\* mutations one / remove (lines 394-406): payload.toJSON() throws a
\* TypeError on undefined; the callers below test IsUndefined first.
IsUndefined(doc) == doc.data = "undefined"
CommitOne(mirror, doc) ==
  [i \in (DOMAIN mirror) \cup {doc.id} |-> IF i = doc.id THEN doc.data ELSE mirror[i]]
CommitRemove(mirror, doc) ==
  [i \in (DOMAIN mirror) \ {doc.id} |-> mirror[i]]

\* each(list, commit) of lines 509-517: stops at the first undefined element,
\* whose toJSON() throws; what was committed before it stays.
RECURSIVE CommitEach(_, _, _, _)
CommitEach(mirror, list, i, remove) ==
  IF i > Len(list) THEN [documents |-> mirror, threw |-> FALSE]
  ELSE IF IsUndefined(list[i]) THEN [documents |-> mirror, threw |-> TRUE]
  ELSE CommitEach(IF remove THEN CommitRemove(mirror, list[i])
                  ELSE CommitOne(mirror, list[i]), list, i + 1, remove)

\* a.create.length || a.replace.length || a.delete.length (lines 588-591 and
\* 601-604): left to right, the first non-empty list ends it; reading .length
\* of a key the object does not have throws a TypeError.
RECURSIVE AnyLengthFrom(_, _, _)
AnyLengthFrom(obj, ks, i) ==
  IF i > Len(ks) THEN "false"
  ELSE IF ~HasKey(obj, ks[i]) THEN "TypeError"
  ELSE IF Len(Get(obj, ks[i])) > 0 THEN "true"
  ELSE AnyLengthFrom(obj, ks, i + 1)
AnyLength(obj) == AnyLengthFrom(obj, <<"create", "replace", "delete">>, 1)

\* remainder.length of line 519: a property the regulator's result never has.
LengthProperty(obj) == IF HasKey(obj, "length") THEN Len(Get(obj, "length")) ELSE 0

\* Classification of lines 487-503.
\* The test of line 487 asking only whether the item has a $id.
IsDeleteItemById(item) == item.id # AbsentId
IsDeleteItem(item) == item.id # AbsentId /\ item.data = "none"
IsReplaceItem(item) == ~IsDeleteItem(item) /\ item.id \notin {AbsentId, EmptyId}
IsCreateItem(item) == ~IsDeleteItem(item) /\ ~IsReplaceItem(item)

AddTo(obj, key, doc) ==
  [i \in 1..Len(obj) |->
     IF obj[i].key = key THEN [obj[i] EXCEPT !.items = Append(@, doc)] ELSE obj[i]]

\* The remote platform applying an accepted batch.
RECURSIVE ApplyList(_, _, _, _)
ApplyList(coll, list, i, remove) ==
  IF i > Len(list) THEN coll
  ELSE IF IsUndefined(list[i]) THEN ApplyList(coll, list, i + 1, remove)
  ELSE ApplyList(IF remove THEN CommitRemove(coll, list[i])
                 ELSE CommitOne(coll, list[i]), list, i + 1, remove)
RECURSIVE ApplyBatch(_, _, _)
ApplyBatch(coll, batch, k) ==
  IF k > Len(batch) THEN coll
  ELSE ApplyBatch(ApplyList(coll, batch[k].items, 1, batch[k].key = "delete"),
                  batch, k + 1)

\* No call chain has started.
ChainIdle ==
  /\ op = "idle"
  /\ pc = "idle"
  /\ input = <<>>
  /\ todo = <<>>
  /\ docs = NoObject
  /\ rem = NoObject
  /\ held = Undefined
  /\ bpayload = NoObject
  /\ breg = EmptyReg
  /\ depth = 0
  /\ calls = <<>>
  /\ bresult = "pending"
  /\ result = "pending"
  /\ mirror0 = documents
  /\ failures = 0
  /\ nextId = 0
  /\ classified = 0
  /\ dispatched = FALSE
  /\ itemFailure = "none"

\* The module as registered (lines 380-384): an empty mirror, no chain yet.
StoreIdle ==
  /\ remote = [i \in RemoteIds |-> "small"]
  /\ documents = EmptyMap
  /\ ChainIdle

\* dispatch("broadcast", payload): a new frame, entered synchronously.
DispatchBroadcast(payload) ==
  /\ pc' = "broadcast"
  /\ bpayload' = payload
  /\ breg' = EmptyReg
  /\ depth' = 0
  /\ dispatched' = TRUE

\* ---- public action broadcast (lines 584-615)
BroadcastKeyOrders ==
  { <<"create">>, <<"replace">>, <<"delete">>, <<"delete", "create">>,
    <<"create", "replace", "delete">> }

StartBroadcast ==
  /\ pc = "idle"
  /\ \E ks \in BroadcastKeyOrders :
       \E c \in [1..Len(ks) -> {0, PadLen} \X SeqsUpTo(DataSizes, MaxFree)] :
         /\ input' = RegPayload(ks, c)
         /\ DispatchBroadcast(RegPayload(ks, c))
  /\ op' = "broadcast"
  /\ UNCHANGED <<documents, remote, todo, docs, rem, held, calls, bresult,
                 result, mirror0, failures, nextId, classified, itemFailure>>
  /\ UNCHANGED offChain

\* return r / the catch of lines 610-614 / an exception leaving the frame.
BroadcastReturns(r) ==
  /\ pc' = "returned"
  /\ bresult' = r

\* Lines 601-609 of one frame, reg its regulated payload.  The recursive
\* dispatch enters the next frame synchronously when this frame made no remote
\* call (sync = TRUE); at MaxStack nested frames the stack is exhausted: the
\* RangeError is caught by a frame's catch (false) or, thrown again inside that
\* catch, rejects the chain's promise.
AfterSubmit(reg, sync) ==
  LET more == AnyLength(reg.remainder)
  IN CASE more = "TypeError" ->
            BroadcastReturns("false") /\ UNCHANGED <<bpayload, breg, depth>>
       [] more = "false" ->
            BroadcastReturns("true") /\ UNCHANGED <<bpayload, breg, depth>>
       [] OTHER ->
            IF sync /\ depth >= MaxStack
            THEN /\ \E r \in {"false", "rejected"} : BroadcastReturns(r)
                 /\ UNCHANGED <<bpayload, breg, depth>>
            ELSE /\ pc' = "broadcast"
                 /\ bpayload' = reg.remainder
                 /\ breg' = EmptyReg
                 /\ depth' = IF sync THEN depth + 1 ELSE 0
                 /\ UNCHANGED bresult

\* A frame from its entry to its first await (lines 585-598), or to its return
\* when it awaits nothing.
BroadcastFrame ==
  /\ pc = "broadcast"
  /\ LET reg == regulatePayload(bpayload)
         any == AnyLength(reg.included)
     IN CASE any = "TypeError" ->
               BroadcastReturns("false") /\ UNCHANGED <<bpayload, breg, depth>>
          [] any = "true" ->
               /\ pc' = "remote"
               /\ breg' = reg
               /\ UNCHANGED <<bpayload, depth, bresult>>
          [] OTHER -> AfterSubmit(reg, TRUE)
  /\ UNCHANGED <<documents, remote, op, input, todo, docs, rem, held, calls,
                 result, mirror0, failures, nextId, classified, dispatched,
                 itemFailure>>
  /\ UNCHANGED offChain

\* Mutant: the exception of the remote call is swallowed and the frame goes
\* on with its remainder.
RemoteThrowsThenGoesOn ==
  /\ pc = "remote"
  /\ failures < MaxFailures
  /\ failures' = failures + 1
  /\ calls' = Append(calls, [batch |-> breg.included, ok |-> FALSE])
  /\ AfterSubmit(breg, FALSE)
  /\ UNCHANGED <<documents, remote, op, input, todo, docs, rem, held, result,
                 mirror0, nextId, classified, dispatched, itemFailure>>
  /\ UNCHANGED offChain

\* The awaited client.platform.documents.broadcast(included, identity) throws.
RemoteThrows ==
  /\ pc = "remote"
  /\ failures < MaxFailures
  /\ failures' = failures + 1
  /\ calls' = Append(calls, [batch |-> breg.included, ok |-> FALSE])
  /\ BroadcastReturns("false")
  /\ UNCHANGED <<documents, remote, op, input, todo, docs, rem, held, bpayload,
                 breg, depth, result, mirror0, nextId, classified, dispatched,
                 itemFailure>>
  /\ UNCHANGED offChain

\* The awaited remote broadcast resolves; the frame goes on with lines 601-609.
RemoteAccepts ==
  /\ pc = "remote"
  /\ calls' = Append(calls, [batch |-> breg.included, ok |-> TRUE])
  /\ remote' = ApplyBatch(remote, breg.included, 1)
  /\ AfterSubmit(breg, FALSE)
  /\ UNCHANGED <<documents, op, input, todo, docs, rem, held, result, mirror0,
                 failures, nextId, classified, dispatched, itemFailure>>
  /\ UNCHANGED offChain

\* The public broadcast call settles with its outermost frame's result.
BroadcastDone ==
  /\ pc = "returned"
  /\ op = "broadcast"
  /\ pc' = "done"
  /\ result' = bresult
  /\ UNCHANGED <<documents, remote, op, input, todo, docs, rem, held, bpayload,
                 breg, depth, calls, bresult, mirror0, failures, nextId,
                 classified, dispatched, itemFailure>>
  /\ UNCHANGED offChain

\* ---- actions one (lines 439-449) and compose (lines 458-472)
\* one(id) resolves: the remote holds the id; the fetched document is committed
\* to the mirror (line 446) and returned.
Fetched(id) == [id |-> id, data |-> remote[id]]
OneResolves(id) ==
  /\ id \in DOMAIN remote
  /\ documents' = CommitOne(documents, Fetched(id))
  /\ UNCHANGED failures

\* one(id) rejects: retrieve throws, or it finds nothing and commit("one",
\* undefined) throws the TypeError of line 395.
OneRejects(id) ==
  /\ \/ /\ id \in DOMAIN remote
        /\ failures < MaxFailures
        /\ failures' = failures + 1
     \/ /\ id \notin DOMAIN remote
        /\ UNCHANGED failures
  /\ UNCHANGED documents

\* compose(fields) resolves to a new document with an id of its own.
Composed(item) == [id |-> 100 + nextId + 1, data |-> item.data]
ComposeResolves ==
  /\ nextId' = nextId + 1
  /\ UNCHANGED failures

\* compose(fields): documents.create throws, the catch of line 469 logs it and
\* the action resolves to undefined.
ComposeFails ==
  /\ failures < MaxFailures
  /\ failures' = failures + 1
  /\ UNCHANGED nextId

\* A public action settles with value r.
Settles(r) ==
  /\ pc' = "done"
  /\ result' = r

\* ---- public action multiple (lines 474-528)
EmptyOperations ==
  << [key |-> "create", items |-> <<>>], [key |-> "replace", items |-> <<>>],
     [key |-> "delete", items |-> <<>>] >>

\* Lines 475-483: regulate {items: payload}, start with empty operations.
EnterMultiple(raw) ==
  LET reg == regulatePayload(<< [key |-> "items", items |-> raw] >>)
  IN /\ todo' = Get(reg.included, "items")
     /\ rem' = reg.remainder
     /\ docs' = EmptyOperations
     /\ pc' = "classify"

RawPad == MAX_DOCUMENTS_PER_PAYLOAD - 1
Filler(n) == [i \in 1..n |-> [id |-> AbsentId, data |-> "small"]]

StartMultiple ==
  /\ pc = "idle"
  /\ \E pad \in {0, 1, RawPad} : \E free \in SeqsUpTo(RawItems, MaxRaw) :
       /\ input' = Filler(pad) \o free
       /\ EnterMultiple(Filler(pad) \o free)
  /\ op' = "multiple"
  /\ UNCHANGED <<documents, remote, held, bpayload, breg, depth, calls, bresult,
                 result, mirror0, failures, nextId, classified, dispatched,
                 itemFailure>>
  /\ UNCHANGED offChain

\* The catch of lines 525-527: multiple resolves to undefined.
MultipleCatch(why) ==
  /\ Settles("undefined")
  /\ itemFailure' = why
  /\ UNCHANGED <<todo, docs, classified>>

\* Lines 487-490: an item whose only key is $id.
MultipleDelete ==
  /\ pc = "classify"
  /\ todo # <<>>
  /\ IsDeleteItem(Head(todo))
  /\ \/ /\ OneResolves(Head(todo).id)
        /\ docs' = AddTo(docs, "delete", Fetched(Head(todo).id))
        /\ todo' = Tail(todo)
        /\ classified' = classified + 1
        /\ UNCHANGED <<pc, result, itemFailure>>
     \/ /\ OneRejects(Head(todo).id)
        /\ MultipleCatch("lookup")
  /\ UNCHANGED <<remote, op, input, rem, held, bpayload, breg, depth, calls,
                 bresult, mirror0, nextId, dispatched>>
  /\ UNCHANGED offChain

\* Lines 491-498: an item with a truthy $id; setData replaces the fetched
\* document's data by the item's fields whose key does not start with "$".
MultipleReplace ==
  /\ pc = "classify"
  /\ todo # <<>>
  /\ IsReplaceItem(Head(todo))
  /\ \/ /\ OneResolves(Head(todo).id)
        /\ docs' = AddTo(docs, "replace",
                         [Fetched(Head(todo).id) EXCEPT !.data = Head(todo).data])
        /\ todo' = Tail(todo)
        /\ classified' = classified + 1
        /\ UNCHANGED <<pc, result, itemFailure>>
     \/ /\ OneRejects(Head(todo).id)
        /\ MultipleCatch("lookup")
  /\ UNCHANGED <<remote, op, input, rem, held, bpayload, breg, depth, calls,
                 bresult, mirror0, nextId, dispatched>>
  /\ UNCHANGED offChain

\* Lines 499-503: any other item; a failed compose pushes undefined.
MultipleCreate ==
  /\ pc = "classify"
  /\ todo # <<>>
  /\ IsCreateItem(Head(todo))
  /\ \/ /\ ComposeResolves
        /\ docs' = AddTo(docs, "create", Composed(Head(todo)))
        /\ UNCHANGED itemFailure
     \/ /\ ComposeFails
        /\ docs' = AddTo(docs, "create", Undefined)
        /\ itemFailure' = "compose"
  /\ todo' = Tail(todo)
  /\ classified' = classified + 1
  /\ UNCHANGED <<documents, remote, op, pc, input, rem, held, bpayload, breg,
                 depth, calls, bresult, result, mirror0, dispatched>>
  /\ UNCHANGED offChain

\* Line 506: the loop is over, the operations go to broadcast.
MultipleDispatch ==
  /\ pc = "classify"
  /\ todo = <<>>
  /\ DispatchBroadcast(docs)
  /\ UNCHANGED <<documents, remote, op, input, todo, docs, rem, held, calls,
                 bresult, result, mirror0, failures, nextId, classified,
                 itemFailure>>
  /\ UNCHANGED offChain

\* Lines 508-527 once broadcast has settled.
MultipleSettle ==
  /\ pc = "returned"
  /\ op = "multiple"
  /\ IF bresult = "true"
     THEN LET put == CommitEach(documents, Get(docs, "create") \o Get(docs, "replace"),
                                1, FALSE)
              cut == IF put.threw THEN put
                     ELSE CommitEach(put.documents, Get(docs, "delete"), 1, TRUE)
          IN /\ documents' = cut.documents
             /\ IF cut.threw
                THEN Settles("undefined") /\ UNCHANGED <<todo, docs, rem>>
                ELSE IF LengthProperty(rem) # 0
                THEN EnterMultiple(Get(rem, "items")) /\ UNCHANGED result
                ELSE Settles("true") /\ UNCHANGED <<todo, docs, rem>>
     ELSE /\ Settles("undefined")
          /\ UNCHANGED <<documents, todo, docs, rem>>
  /\ UNCHANGED <<remote, op, input, held, bpayload, breg, depth, calls, bresult,
                 mirror0, failures, nextId, classified, dispatched, itemFailure>>
  /\ UNCHANGED offChain

\* ---- public actions create, replace, delete (lines 531-581)
StartSingle ==
  /\ pc = "idle"
  /\ \E o \in {"create", "replace", "delete"} : \E item \in RawItems :
       /\ op' = o
       /\ input' = item
  /\ pc' = "fetch"
  /\ UNCHANGED <<documents, remote, todo, docs, rem, held, bpayload, breg, depth,
                 calls, bresult, result, mirror0, failures, nextId, classified,
                 dispatched, itemFailure>>
  /\ UNCHANGED offChain

\* Lines 533-537: compose, then broadcast {create: [created]}.
CreateCompose ==
  /\ pc = "fetch"
  /\ op = "create"
  /\ \/ /\ ComposeResolves
        /\ held' = Composed(input)
        /\ DispatchBroadcast(<< [key |-> "create", items |-> <<Composed(input)>>] >>)
        /\ UNCHANGED itemFailure
     \/ /\ ComposeFails
        /\ held' = Undefined
        /\ DispatchBroadcast(<< [key |-> "create", items |-> <<Undefined>>] >>)
        /\ itemFailure' = "compose"
  /\ UNCHANGED <<documents, remote, op, input, todo, docs, rem, calls, bresult,
                 result, mirror0, classified>>
  /\ UNCHANGED offChain

\* Lines 550-556: look the document up, setData(payload), broadcast
\* {replace: [replaced]}.
ReplaceLookup ==
  /\ pc = "fetch"
  /\ op = "replace"
  /\ \/ /\ OneResolves(input.id)
        /\ held' = [Fetched(input.id) EXCEPT !.data = input.data]
        /\ DispatchBroadcast(<< [key |-> "replace",
                                 items |-> << [Fetched(input.id) EXCEPT !.data = input.data] >>] >>)
        /\ UNCHANGED <<result, itemFailure>>
     \/ /\ OneRejects(input.id)
        /\ Settles("undefined")
        /\ itemFailure' = "lookup"
        /\ UNCHANGED <<held, bpayload, breg, depth, dispatched>>
  /\ UNCHANGED <<remote, op, input, todo, docs, rem, calls, bresult, mirror0,
                 nextId, classified>>
  /\ UNCHANGED offChain

\* Lines 569-573: look the document up, broadcast {delete: [deleted]}.
DeleteLookup ==
  /\ pc = "fetch"
  /\ op = "delete"
  /\ \/ /\ OneResolves(input.id)
        /\ held' = Fetched(input.id)
        /\ DispatchBroadcast(<< [key |-> "delete", items |-> <<Fetched(input.id)>>] >>)
        /\ UNCHANGED <<result, itemFailure>>
     \/ /\ OneRejects(input.id)
        /\ Settles("undefined")
        /\ itemFailure' = "lookup"
        /\ UNCHANGED <<held, bpayload, breg, depth, dispatched>>
  /\ UNCHANGED <<remote, op, input, todo, docs, rem, calls, bresult, mirror0,
                 nextId, classified>>
  /\ UNCHANGED offChain

\* if (success) commit(...) of lines 539-541, 558-560, 575-577; the actions
\* return nothing.
SingleSettle ==
  /\ pc = "returned"
  /\ op \in {"create", "replace", "delete"}
  /\ documents' =
       IF bresult # "true" \/ IsUndefined(held) THEN documents
       ELSE IF op = "delete" THEN CommitRemove(documents, held)
       ELSE CommitOne(documents, held)
  /\ Settles("undefined")
  /\ UNCHANGED <<remote, op, input, todo, docs, rem, held, bpayload, breg, depth,
                 calls, bresult, mirror0, failures, nextId, classified,
                 dispatched, itemFailure>>
  /\ UNCHANGED offChain

\* ---- public action one (lines 439-449)
StartOne ==
  /\ pc = "idle"
  /\ \E id \in RawIds \ {AbsentId} :
       input' = [id |-> id, data |-> "none"]
  /\ op' = "one"
  /\ pc' = "fetch"
  /\ UNCHANGED <<documents, remote, todo, docs, rem, held, bpayload, breg, depth,
                 calls, bresult, result, mirror0, failures, nextId, classified,
                 dispatched, itemFailure>>
  /\ UNCHANGED offChain

\* The action has no try: what retrieve or commit("one", undefined) throws
\* rejects the promise the caller holds.
OneSettle ==
  /\ pc = "fetch"
  /\ op = "one"
  /\ \/ /\ OneResolves(input.id)
        /\ held' = Fetched(input.id)
        /\ Settles("document")
        /\ UNCHANGED itemFailure
     \/ /\ OneRejects(input.id)
        /\ Settles("rejected")
        /\ itemFailure' = "lookup"
        /\ UNCHANGED held
  /\ UNCHANGED <<remote, op, input, todo, docs, rem, bpayload, breg, depth,
                 calls, bresult, mirror0, nextId, classified, dispatched>>
  /\ UNCHANGED offChain

\* ---- public action all (lines 411-436)
MAX_DOCUMENTS_PER_QUERY == 100

\* Largest remote collection a refresh pages through.
MaxDocs == 201

AllIdle ==
  /\ allPc = "idle"
  /\ all = <<>>
  /\ page = 0
  /\ queries = <<>>
  /\ reply = <<>>
  /\ allResult = "pending"

\* The loop test of line 421, wrongly strict.
ContinuePagingStrict(len, p) == len > p * MAX_DOCUMENTS_PER_QUERY
\* The loop test of line 421.
ContinuePaging(len, p) == len >= p * MAX_DOCUMENTS_PER_QUERY

\* The query of lines 422-426.
PageQuery(p) ==
  [startAt |-> p * MAX_DOCUMENTS_PER_QUERY, limit |-> MAX_DOCUMENTS_PER_QUERY]

\* The remote collection in the order the platform lists it (by id).
MaxOf(S) == CHOOSE m \in S : \A j \in S : j <= m
Listing(coll) ==
  IF DOMAIN coll = {} THEN <<>>
  ELSE LET ids == SelectSeq([i \in 1..MaxOf(DOMAIN coll) |-> i],
                            LAMBDA i : i \in DOMAIN coll)
       IN [k \in 1..Len(ids) |-> [id |-> ids[k], data |-> coll[ids[k]]]]

\* platform.documents.get with startAt and limit (line 453).
Retrieve(coll, q) ==
  LET list == Listing(coll)
      upto == IF q.startAt + q.limit < Len(list) THEN q.startAt + q.limit
              ELSE Len(list)
  IN SubSeq(list, q.startAt + 1, upto)

\* keyBy(invokeMap(payload, "toJSON"), "$id") of line 391.
KeyBy(list) ==
  [i \in {list[k].id : k \in 1..Len(list)} |->
     list[MaxOf({k \in 1..Len(list) : list[k].id = i})].data]

\* dispatch("all"): the loop is entered and the first query sent.
StartAll ==
  /\ allPc = "idle"
  /\ IF ContinuePaging(Len(all), page)
     THEN /\ queries' = Append(queries, PageQuery(page))
          /\ allPc' = "query"
          /\ UNCHANGED <<documents, allResult>>
     ELSE /\ documents' = KeyBy(all)
          /\ allPc' = "done"
          /\ allResult' = "resolved"
          /\ UNCHANGED queries
  /\ UNCHANGED <<all, page, reply>>
  /\ UNCHANGED <<remote, chainVars, regVars, registryVars, syncVars>>

\* The platform answers the query in flight from the collection as it is.
RemoteAnswers ==
  /\ allPc = "query"
  /\ reply' = Retrieve(remote, queries[Len(queries)])
  /\ allPc' = "reply"
  /\ UNCHANGED <<all, page, queries, allResult>>
  /\ UNCHANGED <<documents, remote, chainVars, regVars, registryVars, syncVars>>

\* retrieve throws: the action has no try, its promise rejects (line 428).
RetrieveThrows ==
  /\ allPc = "query"
  /\ allPc' = "done"
  /\ allResult' = "rejected"
  /\ UNCHANGED <<all, page, queries, reply>>
  /\ UNCHANGED <<documents, remote, chainVars, regVars, registryVars, syncVars>>

\* Lines 428-435: the page is appended, page++, then either the next query
\* or commit("all", all) and return.
ReceivePage ==
  /\ allPc = "reply"
  /\ all' = all \o reply
  /\ page' = page + 1
  /\ reply' = <<>>
  /\ IF ContinuePaging(Len(all \o reply), page + 1)
     THEN /\ queries' = Append(queries, PageQuery(page + 1))
          /\ allPc' = "query"
          /\ UNCHANGED <<documents, allResult>>
     ELSE /\ documents' = KeyBy(all \o reply)
          /\ allPc' = "done"
          /\ allResult' = "resolved"
          /\ UNCHANGED queries
  /\ UNCHANGED <<remote, chainVars, regVars, registryVars, syncVars>>

\* ---- the account and the identity of the root module (lines 146-219, 276-345)
\* Runs of init after the one of the installation.
MaxResets == 1
\* Calls of one armed trigger that are told apart.
MaxInvocations == 2

Resources == {"account", "identity"}
Runs == 1..(MaxResets + 1)

\* The trigger slot after init, armed whatever the options hold.
ArmAlways(present) == "armed"
\* Lines 288-306: once(() => dispatch(...)) when the credential is truthy,
\* null otherwise.
Arm(present) == IF present THEN "armed" ELSE "null"

\* A wrapper that runs its function at every call.
FiresAlways(slot) == slot # "null"
\* once (lines 291 and 301): the wrapped dispatch runs at the first call only.
Fires(slot) == slot = "armed"

\* Action init (lines 276-307) under options whose credentials are c.
AfterInit(c) ==
  /\ cred' = c
  /\ resource' = [r \in Resources |-> 0]
  /\ synced' = [r \in Resources |-> FALSE]
  /\ syncing' = [r \in Resources |-> FALSE]
  /\ trigger' = [r \in Resources |-> Arm(c[r])]
  /\ invocations' = [r \in Resources |-> 0]
  /\ fetchCalls' = [r \in Resources |-> 0]
  /\ stamps' = [r \in Resources |-> 0]

\* The installation (line 642): init has run once, nothing is in flight.
SyncInstalled(c) ==
  /\ cred = c
  /\ resource = [r \in Resources |-> 0]
  /\ synced = [r \in Resources |-> FALSE]
  /\ syncing = [r \in Resources |-> FALSE]
  /\ trigger = [r \in Resources |-> Arm(c[r])]
  /\ invocations = [r \in Resources |-> 0]
  /\ fetchCalls = [r \in Resources |-> 0]
  /\ stamps = [r \in Resources |-> 0]
  /\ fetching = [r \in Resources |-> {}]
  /\ listening = {}
  /\ gen = 1
  /\ last = [kind |-> "init", r |-> "none", g |-> 1]

\* defaultOptions (lines 67-72): mnemonic and identityId are null.
SyncIdle == SyncInstalled([r \in Resources |-> FALSE])

\* commit("updateOptions", ...) and the subscriber of lines 625-628, which
\* dispatches init; init has no await and runs to its end.
UpdateOptions ==
  /\ gen <= MaxResets
  /\ \E c \in [Resources -> BOOLEAN] : AfterInit(c)
  /\ gen' = gen + 1
  /\ last' = [kind |-> "init", r |-> "none", g |-> gen + 1]
  /\ UNCHANGED <<fetching, listening>>
  /\ UNCHANGED <<storeVars, regVars, allVars, registryVars>>

\* What the getter account / identity returns (lines 149-155 and 202-208).
GetterValue(r) == IF resource[r] # 0 /\ synced[r] THEN resource[r] ELSE 0

\* state.accountInit() / state.identityInit(): the first call of the wrapper
\* dispatches accountInit / identityInit, which commits syncing true and
\* awaits the fetch (lines 310-313 and 330-335).
CallTrigger(r) ==
  /\ trigger[r] # "null"
  /\ invocations[r] < MaxInvocations
  /\ invocations' = [invocations EXCEPT ![r] = @ + 1]
  /\ IF Fires(trigger[r])
     THEN /\ trigger' = [trigger EXCEPT ![r] = "fired"]
          /\ syncing' = [syncing EXCEPT ![r] = TRUE]
          /\ fetching' = [fetching EXCEPT ![r] = @ \cup {gen}]
          /\ fetchCalls' = [fetchCalls EXCEPT ![r] = @ + 1]
     ELSE UNCHANGED <<trigger, syncing, fetching, fetchCalls>>

\* A consumer reads the getter (lines 148-162 and 201-219).
ReadGetter ==
  /\ \E r \in Resources :
       /\ IF GetterValue(r) # 0
          THEN UNCHANGED <<trigger, syncing, fetching, fetchCalls, invocations>>
          ELSE IF trigger[r] # "null" /\ (r = "identity" => cred[r])
          THEN CallTrigger(r)
          ELSE UNCHANGED <<trigger, syncing, fetching, fetchCalls, invocations>>
       /\ last' = [kind |-> "read", r |-> r, g |-> GetterValue(r)]
  /\ UNCHANGED <<cred, resource, synced, listening, gen, stamps>>
  /\ UNCHANGED <<storeVars, regVars, allVars, registryVars>>

\* A consumer calls the function in the trigger slot itself.
InvokeTrigger ==
  /\ \E r \in Resources :
       /\ CallTrigger(r)
       /\ last' = [kind |-> "invoke", r |-> r, g |-> gen]
  /\ UNCHANGED <<cred, resource, synced, listening, gen, stamps>>
  /\ UNCHANGED <<storeVars, regVars, allVars, registryVars>>

\* The fetch of run g resolves (lines 313-321 and 332-338); the account also
\* gets its TRANSACTION listener.
FetchResolves ==
  /\ \E r \in Resources : \E g \in fetching[r] :
       /\ fetching' = [fetching EXCEPT ![r] = @ \ {g}]
       /\ listening' = IF r = "account" THEN listening \cup {g} ELSE listening
       /\ resource' = [resource EXCEPT ![r] = g]
       /\ trigger' = [trigger EXCEPT ![r] = "null"]
       /\ synced' = [synced EXCEPT ![r] = TRUE]
       /\ syncing' = [syncing EXCEPT ![r] = FALSE]
       /\ stamps' = IF g = gen THEN [stamps EXCEPT ![r] = @ + 1] ELSE stamps
       /\ last' = [kind |-> "resolved", r |-> r, g |-> g]
  /\ UNCHANGED <<cred, gen, invocations, fetchCalls>>
  /\ UNCHANGED <<storeVars, regVars, allVars, registryVars>>

\* The fetch of run g throws: the catch logs it (lines 322-326 and 339-343).
FetchThrows ==
  /\ \E r \in Resources : \E g \in fetching[r] :
       /\ fetching' = [fetching EXCEPT ![r] = @ \ {g}]
       /\ syncing' = [syncing EXCEPT ![r] = FALSE]
       /\ last' = [kind |-> "threw", r |-> r, g |-> g]
  /\ UNCHANGED <<cred, resource, trigger, synced, listening, gen, invocations,
                 fetchCalls, stamps>>
  /\ UNCHANGED <<storeVars, regVars, allVars, registryVars>>

\* An account that was fetched reports a transaction (lines 315-317).
Transaction ==
  /\ \E g \in listening :
       /\ synced' = [synced EXCEPT !["account"] = TRUE]
       /\ last' = [kind |-> "transaction", r |-> "account", g |-> g]
  /\ UNCHANGED <<cred, resource, trigger, syncing, fetching, listening, gen,
                 invocations, fetchCalls, stamps>>
  /\ UNCHANGED <<storeVars, regVars, allVars, registryVars>>

\* ---- the registry of per-type modules (lines 362-384 and 618-622)
\* Longest documents list.
MaxList == 2
TypeNames == {"foo", "bar"}
DocumentLists == SeqsUpTo(TypeNames, MaxList)
NoModules == [n \in {} |-> "empty"]

\* The plugin as installed with documents: list; store.watch (line 371) has
\* no immediate option, its callback has not run.
Installed(list) ==
  /\ watched = list
  /\ seen = list
  /\ stale = FALSE
  /\ modules = NoModules
  /\ refreshing = {}
  /\ events = <<>>

RegistryIdle == Installed(<<>>)

\* An unregistration that leaves the module in place.
UnregisterNone(mods, name) == mods
\* store.unregisterModule([namespace, document]) of line 375.
Unregister(mods, name) == [n \in (DOMAIN mods) \ {name} |-> mods[n]]
\* store.registerModule([namespace, document], {state: {documents: {}}, ...})
\* of lines 379-384.
Register(mods, name) ==
  [n \in (DOMAIN mods) \cup {name} |-> IF n = name THEN "empty" ELSE mods[n]]

\* each(oldDocuments, ...) of lines 374-376.
RECURSIVE EachUnregister(_, _, _)
EachUnregister(st, list, i) ==
  IF i > Len(list) THEN st
  ELSE EachUnregister([st EXCEPT !.modules = Unregister(@, list[i]),
                                 !.events = Append(@, <<"unregister", list[i]>>)],
                      list, i + 1)
\* each(newDocuments, ...) of lines 378-618.
RECURSIVE EachRegister(_, _, _)
EachRegister(st, list, i) ==
  IF i > Len(list) THEN st
  ELSE EachRegister([st EXCEPT !.modules = Register(@, list[i]),
                               !.events = Append(@, <<"register", list[i]>>)],
                    list, i + 1)
\* Root action all (lines 363-367): dispatch("<document>/all") for every name
\* of options.documents; a type that is not registered has no such action.
RECURSIVE EachRefresh(_, _, _)
EachRefresh(st, list, i) ==
  IF i > Len(list) THEN st
  ELSE EachRefresh(
         IF list[i] \in DOMAIN st.modules
         THEN [st EXCEPT !.refreshing = @ \cup {list[i]},
                         !.events = Append(@, <<"refresh", list[i]>>)]
         ELSE st,
         list, i + 1)

\* commit("<namespace>/updateOptions", {documents: list}): the watcher is
\* queued for the next tick.
ChangeDocuments ==
  /\ \E list \in DocumentLists : watched' = list
  /\ stale' = TRUE
  /\ UNCHANGED <<seen, modules, refreshing, events>>
  /\ UNCHANGED <<storeVars, regVars, allVars, syncVars>>

\* The callback of lines 373-621 with (newDocuments, oldDocuments).
WatcherRuns ==
  /\ stale
  /\ LET st0 == [modules |-> modules, refreshing |-> refreshing, events |-> <<>>]
         st1 == EachUnregister(st0, seen, 1)
         st2 == EachRegister(st1, watched, 1)
         st3 == EachRefresh(st2, watched, 1)
     IN /\ modules' = st3.modules
        /\ refreshing' = st3.refreshing
        /\ events' = st3.events
  /\ seen' = watched
  /\ stale' = FALSE
  /\ UNCHANGED watched
  /\ UNCHANGED <<storeVars, regVars, allVars, syncVars>>

\* A refresh in flight resolves: commit("all", all) fills the mirror of the
\* module registered under the name, if there is one.
RefreshResolves ==
  /\ \E n \in refreshing :
       /\ refreshing' = refreshing \ {n}
       /\ modules' = IF n \in DOMAIN modules THEN [modules EXCEPT ![n] = "synced"]
                     ELSE modules
  /\ UNCHANGED <<watched, seen, stale, events>>
  /\ UNCHANGED <<storeVars, regVars, allVars, syncVars>>

InitRegistry ==
  /\ \E list \in DocumentLists : Installed(list)
  /\ StoreIdle
  /\ regIn = NoObject
  /\ regOut = EmptyReg
  /\ regDone = TRUE
  /\ AllIdle
  /\ SyncIdle

NextRegistry ==
  \/ ChangeDocuments
  \/ WatcherRuns
  \/ RefreshResolves

SpecRegistry == InitRegistry /\ [][NextRegistry]_vars

\* ---- the root module's specification
InitSync ==
  /\ \E c \in [Resources -> BOOLEAN] : SyncInstalled(c)
  /\ StoreIdle
  /\ regIn = NoObject
  /\ regOut = EmptyReg
  /\ regDone = TRUE
  /\ AllIdle
  /\ RegistryIdle

NextSync ==
  \/ UpdateOptions
  \/ ReadGetter
  \/ InvokeTrigger
  \/ FetchResolves
  \/ FetchThrows
  \/ Transaction

SpecSync == InitSync /\ [][NextSync]_vars

\* ---- the store's specification
Init ==
  /\ StoreIdle
  /\ regIn = NoObject
  /\ regOut = EmptyReg
  /\ regDone = TRUE
  /\ AllIdle
  /\ SyncIdle
  /\ RegistryIdle

Next ==
  \/ StartBroadcast
  \/ BroadcastFrame
  \/ RemoteThrows
  \/ RemoteAccepts
  \/ BroadcastDone
  \/ StartMultiple
  \/ MultipleDelete
  \/ MultipleReplace
  \/ MultipleCreate
  \/ MultipleDispatch
  \/ MultipleSettle
  \/ StartSingle
  \/ CreateCompose
  \/ ReplaceLookup
  \/ DeleteLookup
  \/ SingleSettle
  \/ StartOne
  \/ OneSettle

Spec == Init /\ [][Next]_vars

\* ---- the refresh alone, over remote collections of every size
InitAll ==
  /\ \E n \in 0..MaxDocs : remote = [i \in 1..n |-> "small"]
  /\ documents = EmptyMap
  /\ ChainIdle
  /\ regIn = NoObject
  /\ regOut = EmptyReg
  /\ regDone = TRUE
  /\ AllIdle
  /\ SyncIdle
  /\ RegistryIdle

NextAll ==
  \/ StartAll
  \/ RemoteAnswers
  \/ RetrieveThrows
  \/ ReceivePage

SpecAll == InitAll /\ [][NextAll]_vars

\* ---- a call chain and a refresh on the same collection, interleaved
NextRace ==
  \/ Next
  \/ NextAll

SpecRace == Init /\ [][NextRace]_vars

\* ------------------------------------------------------------ regulator specification
InitRegulate ==
  /\ \E ks \in RegKeyOrders :
       \E c \in [1..Len(ks) -> {0, PadLen} \X SeqsUpTo(RegData, MaxFree)] :
         regIn = RegPayload(ks, c)
  /\ regOut = [included |-> <<>>, remainder |-> <<>>]
  /\ regDone = FALSE
  /\ StoreIdle
  /\ AllIdle
  /\ SyncIdle
  /\ RegistryIdle

Regulate ==
  /\ ~regDone
  /\ regOut' = regulatePayload(regIn)
  /\ regDone' = TRUE
  /\ UNCHANGED regIn
  /\ UNCHANGED <<storeVars, allVars, registryVars, syncVars>>

NextRegulate == Regulate

SpecRegulate == InitRegulate /\ [][NextRegulate]_vars

\* ------------------------------------------------------------ claims on the regulator
\* The items of the first k keys of an object, in visit order.
RECURSIVE Flatten(_, _)
Flatten(obj, k) ==
  IF k = 0 THEN <<>> ELSE Flatten(obj, k - 1) \o obj[k].items

RECURSIVE SumBytes(_, _)
SumBytes(s, n) ==
  IF n = 0 THEN 0 ELSE SumBytes(s, n - 1) + EncodedLength(s[n])

\* C1 - Regulation completeness: the result has the payload's keys in the
\* payload's order, and for every key included[key] followed by
\* remainder[key] is payload[key] exactly.
C1_RegulationCompleteness ==
  regDone =>
    /\ keys(regOut.included) = keys(regIn)
    /\ keys(regOut.remainder) = keys(regIn)
    /\ \A k \in 1..Len(regIn) :
         regOut.included[k].items \o regOut.remainder[k].items = regIn[k].items

C1_Witness ==
  /\ regDone
  /\ Len(regIn) = 3
  /\ \E k \in 1..Len(regIn) :
       /\ Len(regOut.included[k].items) > 0
       /\ Len(regOut.remainder[k].items) > 0
  /\ \E k \in 1..Len(regIn) : Len(regOut.remainder[k].items) > 1

\* Whether the i-th item of the k-th key was routed to remainder.
InRemainder(k, i) == i > Len(regOut.included[k].items)
Visits == { <<k, i>> \in (1..Len(regIn)) \X (1..(PadLen + MaxFree)) : i <= Len(regIn[k].items) }
Before(v, w) == v[1] < w[1] \/ (v[1] = w[1] /\ v[2] < w[2])

\* C2 - Budget monotonicity: the split is one global cut of the visit order.
\* An item is routed to remainder exactly when the cumulative size up to and
\* including it has reached 4 KB or the cumulative count has exceeded 10, and
\* every item visited after an item of remainder is in remainder too.
C2_BudgetMonotonicity ==
  regDone =>
    LET flat == Flatten(regIn, Len(regIn))
        n == Len(Flatten(regOut.included, Len(regIn)))
    IN /\ \A v, w \in Visits :
            (InRemainder(v[1], v[2]) /\ Before(v, w)) => InRemainder(w[1], w[2])
       /\ Flatten(regOut.included, Len(regIn)) = SubSeq(flat, 1, n)
       /\ Flatten(regOut.remainder, Len(regIn)) = SubSeq(flat, n + 1, Len(flat))
       /\ \A m \in 1..Len(flat) :
            m <= n <=> (SumBytes(flat, m) < FullBytes /\ m <= MAX_DOCUMENTS_PER_PAYLOAD)

C2_Witness ==
  /\ regDone
  /\ Len(regIn) = 3
  /\ Len(regOut.included[1].items) > 0
  /\ Len(regOut.remainder[1].items) > 0
  /\ Len(regOut.remainder[2].items) > 0
  /\ Len(regOut.remainder[3].items) > 0
  /\ \E i \in 1..Len(regIn[3].items) : EncodedLength(regIn[3].items[i]) = SmallBytes

\* ------------------------------------------------------------ claims on the store
\* The operation set the chain handed to broadcast.
Submitted ==
  CASE op = "broadcast" -> input
    [] op = "multiple" -> docs
    [] OTHER -> << [key |-> op, items |-> <<held>>] >>

Items(obj) == Flatten(obj, Len(obj))

\* The documents of the first n remote calls, in the order they were sent.
RECURSIVE SentBy(_)
SentBy(n) == IF n = 0 THEN <<>> ELSE SentBy(n - 1) \o Items(calls[n].batch)

AllAccepted == \A i \in 1..Len(calls) : calls[i].ok

\* C3 - Every remote broadcast call carries at most 10 documents in total and
\* a total serialized size strictly below 4 KB (4096 bytes).
C3_RemoteCallWithinBudget ==
  \A i \in 1..Len(calls) :
    /\ Len(Items(calls[i].batch)) <= 10
    /\ SumBytes(Items(calls[i].batch), Len(Items(calls[i].batch))) < 4096

C3_Witness ==
  /\ Len(calls) >= 2
  /\ Len(Items(calls[1].batch)) = 10
  /\ SumBytes(Items(calls[2].batch), Len(Items(calls[2].batch))) >= HalfBytes

\* C4 - Broadcast order and short-circuit: the documents of the remote calls,
\* call after call, are a prefix of the operation set in visit order (chunks
\* go out in cut order, none skipped, none sent twice); a call that threw is
\* the last call of the chain, and broadcast then returns false.
C4_BroadcastOrder ==
  /\ \A i \in 1..Len(calls) : Len(Items(calls[i].batch)) > 0
  /\ \A i \in 1..(Len(calls) - 1) : calls[i].ok
  /\ dispatched =>
       SentBy(Len(calls)) = SubSeq(Items(Submitted), 1, Len(SentBy(Len(calls))))
  /\ (Len(calls) > 0 /\ ~calls[Len(calls)].ok) =>
       /\ pc \in {"returned", "done"}
       /\ bresult = "false"
       /\ op = "broadcast" /\ pc = "done" => result = "false"

\* A payload of at least 3 chunks whose second remote call threw.
C4_Witness ==
  /\ op = "broadcast"
  /\ pc = "done"
  /\ result = "false"
  /\ Len(calls) = 2
  /\ ~calls[2].ok
  /\ Len(SentBy(2)) < Len(Items(input))

\* C5 - A broadcast that made remote calls returns true when every one of
\* them was accepted and false only when one threw, also for an operation set
\* that has only some of the keys create, replace, delete.
C5_BroadcastResult ==
  (op = "broadcast" /\ pc = "done" /\ Len(calls) > 0) =>
    /\ result \in {"true", "false"}
    /\ result = "true" <=> AllAccepted

\* C6 - create, replace and delete reach the mirror: when the compose or
\* lookup succeeded and the remote accepted the broadcast of the document, the
\* created or replaced document is in the mirror under its id, the deleted id
\* is not in the mirror.
C6_SingleReachesMirror ==
  (op \in {"create", "replace", "delete"} /\ pc = "done"
     /\ itemFailure = "none" /\ Len(calls) > 0 /\ AllAccepted) =>
    IF op = "delete" THEN held.id \notin DOMAIN documents
    ELSE held.id \in DOMAIN documents /\ documents[held.id] = held.data

\* C7 - Broadcast termination: each recursive broadcast step is applied to a
\* remainder with strictly fewer documents than its input.
C7_RemainderShrinks ==
  [][(pc \in {"broadcast", "remote"} /\ pc' = "broadcast")
       => Len(Items(bpayload')) < Len(Items(bpayload))]_vars

\* C8 - multiple drains its remainder: when multiple returns true every raw
\* item it was given has been classified.
C8_MultipleDrains ==
  (op = "multiple" /\ pc = "done" /\ result = "true") =>
    classified = Len(input)

\* C9 - No mirror change without a successful broadcast: a chain of multiple,
\* create, replace or delete whose broadcast did not return true ends with
\* the mirror it started with.
C9_MirrorUnchangedOnFailure ==
  (op \in {"multiple", "create", "replace", "delete"} /\ pc = "done"
     /\ bresult # "true") =>
    documents = mirror0

\* C10 - Planner failure isolation: when the lookup or compose of one item
\* fails, multiple still classifies every included item and hands the
\* operations to broadcast.
C10_FailureIsolation ==
  (op = "multiple" /\ pc = "done" /\ itemFailure # "none") =>
    /\ dispatched
    /\ classified = Len(input) - Len(Get(rem, "items"))


\* ------------------------------------------------------------ claims on classification
\* The keys of a raw item, and the sequence the claim assigns it to.
KeySet(item) ==
  (IF item.id # AbsentId THEN {"$id"} ELSE {})
    \cup (IF item.data # "none" THEN {"fields"} ELSE {})
ClassOf(item) ==
  IF KeySet(item) = {"$id"} THEN "delete"
  ELSE IF item.id \notin {AbsentId, EmptyId} THEN "replace"
  ELSE "create"
\* The included items multiple has gone through, and those of one class.
Processed == SubSeq(input, 1, classified)
ProcessedOf(class) == SelectSeq(Processed, LAMBDA item : ClassOf(item) = class)

\* C14 - Classification: every included item multiple has gone through is in
\* exactly one of the three sequences: delete when its key set is exactly
\* {$id}, otherwise replace when its $id is non-empty (the looked-up record
\* with the item's fields), otherwise create; each sequence keeps the order
\* of the items, and what goes to broadcast covers every included item.
C14_Classification ==
  op = "multiple" =>
    LET del == Get(docs, "delete")
        rep == Get(docs, "replace")
        cre == Get(docs, "create")
        toDelete == ProcessedOf("delete")
        toReplace == ProcessedOf("replace")
        toCreate == ProcessedOf("create")
    IN /\ Len(del) + Len(rep) + Len(cre) = classified
       /\ Len(del) = Len(toDelete)
       /\ \A k \in 1..Len(del) : del[k].id = toDelete[k].id
       /\ rep = toReplace
       /\ Len(cre) = Len(toCreate)
       /\ \A k \in 1..Len(cre) :
            \/ IsUndefined(cre[k])
            \/ /\ cre[k].data = toCreate[k].data
               /\ cre[k].id \notin RawIds
               /\ \A j \in 1..(k - 1) : IsUndefined(cre[j]) \/ cre[j].id < cre[k].id
       /\ dispatched => classified = Len(input) - Len(Get(rem, "items"))

C14_Witness ==
  /\ op = "multiple"
  /\ dispatched
  /\ input = << [id |-> AbsentId, data |-> "small"], [id |-> 1, data |-> "none"],
                [id |-> 1, data |-> "half"] >>
  /\ Len(Get(docs, "delete")) = 1
  /\ Len(Get(docs, "replace")) = 1
  /\ Len(Get(docs, "create")) = 1

\* ------------------------------------------------------------ claims on interleaving
\* The documents a chain of multiple put into each sequence.
Written == SelectSeq(Get(docs, "create") \o Get(docs, "replace"),
                     LAMBDA d : ~IsUndefined(d))
Removed == Get(docs, "delete")
DistinctIds ==
  /\ \A k \in 1..Len(Written) : \A j \in 1..Len(Removed) :
       Written[k].id # Removed[j].id
  /\ \A k \in 1..Len(Written) : \A j \in 1..Len(Written) :
       k # j => Written[k].id # Written[j].id

\* C15 - Eventual consistency under interleaving: once a chain of multiple
\* on distinct ids that returned true and a refresh running beside it have
\* both resolved, every document the chain created or replaced is in the
\* mirror and every document it deleted is not.
C15_EventualConsistency ==
  (op = "multiple" /\ pc = "done" /\ result = "true" /\ DistinctIds
     /\ allPc = "done")
    => /\ \A k \in 1..Len(Written) :
            /\ Written[k].id \in DOMAIN documents
            /\ documents[Written[k].id] = Written[k].data
       /\ \A k \in 1..Len(Removed) : Removed[k].id \notin DOMAIN documents

\* ------------------------------------------------------------ claims on the registry
Names(list) == {list[i] : i \in 1..Len(list)}

\* C16 - Registry lifecycle: whenever the watcher is not queued, from the
\* installation on, a module is registered for exactly the names of the
\* watched documents list.
C16_RegistryLifecycle ==
  ~stale => DOMAIN modules = Names(watched)

\* C17 - Registry resync: a run of the watcher from old to new unregisters
\* every name of old, then registers every name of new with an empty mirror,
\* then dispatches a refresh to every name of new, in this order; after it
\* exactly the names of new are registered, all with empty mirrors, and each
\* has a refresh in flight.
C17_RegistryResync ==
  [][(stale /\ ~stale') =>
       /\ Len(events') = Len(seen) + 2 * Len(watched)
       /\ \A i \in 1..Len(seen) : events'[i] = <<"unregister", seen[i]>>
       /\ \A i \in 1..Len(watched) :
            /\ events'[Len(seen) + i] = <<"register", watched[i]>>
            /\ events'[Len(seen) + Len(watched) + i] = <<"refresh", watched[i]>>
       /\ modules' = [n \in Names(watched) |-> "empty"]
       /\ Names(watched) \subseteq refreshing']_vars

C17_Witness ==
  /\ events = << <<"unregister", "foo">>, <<"register", "foo">>,
                 <<"register", "bar">>, <<"refresh", "foo">>,
                 <<"refresh", "bar">> >>
  /\ ~stale
  /\ modules = [n \in {"foo", "bar"} |-> "empty"]
  /\ refreshing = {"foo", "bar"}

\* ------------------------------------------------------------ claims on the account and the identity
\* C12 - Idempotent singleton trigger: between two runs of init, however
\* often the armed trigger of a resource is called, directly or by reads of
\* the getter, before, during or after the fetch, its calls start exactly
\* one fetch and its run stamps synced at most once.
C12_IdempotentTrigger ==
  \A r \in Resources :
    /\ fetchCalls[r] <= 1
    /\ invocations[r] >= 1 => fetchCalls[r] = 1
    /\ stamps[r] <= 1
    /\ fetchCalls[r] = 0 => stamps[r] = 0

C12_Witness ==
  /\ gen > 1
  /\ invocations["account"] > 1
  /\ fetchCalls["account"] = 1
  /\ stamps["account"] = 1
  /\ last.kind = "read"
  /\ last.r = "account"
  /\ last.g # 0

\* C18 - Precondition failure keeps the resource uninitialized: while the
\* options hold no credential for a resource (the last init ran without it),
\* its stored resource is null, synced is false and the getter returns null.
C18_AbsentCredentialStaysUninitialized ==
  \A r \in Resources :
    ~cred[r] => /\ resource[r] = 0
                /\ ~synced[r]
                /\ GetterValue(r) = 0

\* C19 - Reset and arm: right after init, at the installation and after every
\* updateOptions, both resources are null, not synced and not syncing, and
\* the trigger slot holds a trigger not yet called exactly when the
\* credential is present, null otherwise.
C19_ResetAndArm ==
  last.kind = "init" =>
    \A r \in Resources :
      /\ resource[r] = 0
      /\ ~synced[r]
      /\ ~syncing[r]
      /\ cred[r] => trigger[r] = "armed"
      /\ ~cred[r] => trigger[r] = "null"

C19_Witness ==
  /\ last.kind = "init"
  /\ gen > 1
  /\ cred["account"]
  /\ ~cred["identity"]
  /\ fetching["account"] # {}
  /\ fetching["identity"] # {}

\* C20 - Trigger outcome: a run of the trigger armed by the last init ends,
\* when its fetch resolved, with the resource stored, the slot null, synced
\* stamped, syncing false and the getter returning the resource; when its
\* fetch threw, with the resource null, synced false, syncing false and the
\* getter returning null.
C20_TriggerOutcome ==
  /\ (last.kind = "resolved" /\ last.g = gen) =>
       /\ resource[last.r] = last.g
       /\ trigger[last.r] = "null"
       /\ synced[last.r]
       /\ ~syncing[last.r]
       /\ GetterValue(last.r) = last.g
  /\ (last.kind = "threw" /\ last.g = gen) =>
       /\ resource[last.r] = 0
       /\ ~synced[last.r]
       /\ ~syncing[last.r]
       /\ GetterValue(last.r) = 0

\* C21 - Synced implies resolved: in every state, whatever the interleaving
\* of init, trigger runs and TRANSACTION events, a resource whose synced
\* flag is truthy is stored (state.account / state.identity is not null).
C21_SyncedImpliesResolved ==
  \A r \in Resources : synced[r] => resource[r] # 0

\* C22 - A reset is not undone by a stale fetch: the completion of a fetch
\* started before the last init stores nothing, stamps nothing and leaves
\* the trigger armed by that init in its slot; so the stored resource is
\* always the result of a fetch started after the last init, and at most one
\* fetch per resource is in flight.
C22_ResetNotUndone ==
  \A r \in Resources :
    /\ resource[r] \in {0, gen}
    /\ Cardinality(fetching[r]) <= 1
    /\ (last.kind = "resolved" /\ last.r = r /\ last.g # gen) =>
         /\ ~synced[r]
         /\ cred[r] => trigger[r] # "null"

\* ------------------------------------------------------------ claims on the public boundary
\* C11: no exception crosses a public operation boundary: a call of one,
\* multiple, create, replace, delete or all that has settled has not rejected
\* the promise its caller holds.
C11_NoExceptionEscapes ==
  /\ (pc = "done" /\ op \in {"one", "multiple", "create", "replace", "delete"})
       => result # "rejected"
  /\ allPc = "done" => allResult # "rejected"

\* ------------------------------------------------------------ claims on the refresh
\* C13: the refresh queries startAt 0, 100, 200, ... with limit 100; when the
\* first k-1 replies are full pages and the k-th is shorter (possibly empty)
\* it has made exactly k queries, returns the accumulated items in fetch
\* order and the mirror holds exactly them.
C13_Pagination ==
  /\ \A i \in 1..Len(queries) :
       queries[i] = [startAt |-> (i - 1) * MAX_DOCUMENTS_PER_QUERY,
                     limit |-> MAX_DOCUMENTS_PER_QUERY]
  /\ allPc # "idle" => Len(queries) >= 1
  /\ allPc \in {"query", "reply"} =>
       /\ Len(queries) = page + 1
       /\ Len(all) = page * MAX_DOCUMENTS_PER_QUERY
  /\ (allPc = "done" /\ allResult = "resolved") =>
       LET n == Cardinality(DOMAIN remote)
           k == (n \div MAX_DOCUMENTS_PER_QUERY) + 1
       IN /\ Len(queries) = k
          /\ page = k
          /\ Len(all) = n
          /\ \A i \in 1..n : all[i] = [id |-> i, data |-> remote[i]]
          /\ documents = remote

C13_Witness ==
  /\ allPc = "done"
  /\ allResult = "resolved"
  /\ Len(queries) = 3
  /\ Len(all) = 2 * MAX_DOCUMENTS_PER_QUERY

====
